---- MODULE Spec2Model ----
(***************************************************************************)
(* Model of DrawTriangle/main.cpp: the HelloTriangleApplication lifecycle  *)
(* (initWindow, initVulkan and its six stages, mainLoop, cleanup) and      *)
(* main()'s exception handler.  The windowing toolkit and the graphics     *)
(* driver are the environment: every value they return is drawn from a     *)
(* small set at the call that asks for it.                                 *)
(***************************************************************************)
EXTENDS Integers, Sequences, FiniteSets, TLC

(* ------------------------------ bounds --------------------------------- *)
\* most adapters vkEnumeratePhysicalDevices reports
MaxDevices == 2
\* most queue families one adapter reports
MaxFamilies == 2

(* ------------------------- program constants --------------------------- *)
\* std::numeric_limits<uint32_t>::max(), with uint32_t narrowed to 16 bits:
\* the checker's integers end at 2^31 - 1, and every size the program handles
\* (800, 600, 1600, 1200, 1280, 1024) stays far below 2^16
UINT32_MAX == 65535
WIDTH == 800
HEIGHT == 600
\* std::optional<uint32_t> without a value
nullopt == -1
\* VkPhysicalDevice physicalDevice = VK_NULL_HANDLE; adapters are 1..deviceCount
VK_NULL_HANDLE == 0

validationLayers == <<"VK_LAYER_KHRONOS_validation">>
deviceExtensions == <<"VK_KHR_swapchain">>
VK_EXT_DEBUG_UTILS_EXTENSION_NAME == "VK_EXT_debug_utils"

Range(s) == {s[i] : i \in 1..Len(s)}

(* ------------------------- environment values -------------------------- *)
\* what glfwGetRequiredInstanceExtensions returns once the toolkit is up
glfwExtensions == <<"VK_KHR_surface", "VK_KHR_platform_surface">>

\* layer sets vkEnumerateInstanceLayerProperties may report
LayerSets ==
    {{}, {"VK_LAYER_other"}, {"VK_LAYER_KHRONOS_validation", "VK_LAYER_other"}}

VkResults == {"VK_SUCCESS", "VK_ERROR"}

\* what vkGetPhysicalDeviceSurfaceSupportKHR does for a family: it writes
\* VK_TRUE or VK_FALSE to its output, or it fails and writes nothing
SurfaceSupportAnswers == {"VK_TRUE", "VK_FALSE", "VK_ERROR_SURFACE_LOST_KHR"}
\* one VkQueueFamilyProperties entry together with the answer of
\* vkGetPhysicalDeviceSurfaceSupportKHR for its index
QueueFamily == [graphics : BOOLEAN, present : SurfaceSupportAnswers]
\* the family lists of the adapters met in whole runs: there every support
\* query is answered; a failing query is explored for findQueueFamilies on
\* its own
AnsweringFamily == [graphics : BOOLEAN, present : {"VK_TRUE", "VK_FALSE"}]
FamilyLists == UNION {[1..n -> AnsweringFamily] : n \in 0..MaxFamilies}

SRGB_FORMAT == [format |-> "VK_FORMAT_B8G8R8A8_SRGB",
                colorSpace |-> "VK_COLOR_SPACE_SRGB_NONLINEAR_KHR"]
UNORM_FORMAT == [format |-> "VK_FORMAT_B8G8R8A8_UNORM",
                 colorSpace |-> "VK_COLOR_SPACE_SRGB_NONLINEAR_KHR"]
FormatLists == {<<>>, <<UNORM_FORMAT>>, <<UNORM_FORMAT, SRGB_FORMAT>>}

PresentModeLists ==
    {<<>>, <<"VK_PRESENT_MODE_FIFO_KHR", "VK_PRESENT_MODE_MAILBOX_KHR">>}

ExtensionSets == SUBSET {"VK_KHR_swapchain"}

\* everything the driver reports about one adapter and the surface
Adapters == [queueFamilies : FamilyLists,
             extensions   : ExtensionSets,
             formats      : FormatLists,
             presentModes : PresentModeLists]

NoAdapter == [queueFamilies |-> <<>>, extensions |-> {},
              formats |-> <<>>, presentModes |-> <<>>]

Extent(w, h) == [width |-> w, height |-> h]

\* VkSurfaceCapabilitiesKHR: the fields createSwapChain reads
ImageCountPairs ==
    {<<1, 1>>, <<2, 0>>, <<2, 2>>, <<2, 3>>,
     <<UINT32_MAX, 0>>, <<UINT32_MAX, UINT32_MAX>>}
CurrentExtents == {Extent(WIDTH, HEIGHT), Extent(UINT32_MAX, UINT32_MAX)}
\* every image-count pair with the window's own extent, and every current
\* extent with the pair <<2, 3>>
Capabilities ==
    {[minImageCount |-> c[1][1], maxImageCount |-> c[1][2],
      currentExtent |-> c[2],
      minImageExtent |-> Extent(640, 480), maxImageExtent |-> Extent(1280, 1024)] :
        c \in (ImageCountPairs \X {Extent(WIDTH, HEIGHT)})
                  \cup ({<<2, 3>>} \X CurrentExtents)}
NoCapabilities ==
    [minImageCount |-> 0, maxImageCount |-> 0, currentExtent |-> Extent(0, 0),
     minImageExtent |-> Extent(0, 0), maxImageExtent |-> Extent(0, 0)]

\* pixel sizes glfwGetFramebufferSize may report
FramebufferSizes == {Extent(1600, 1200)}

(* ----------------------------- handles --------------------------------- *)
Handles == {"toolkit", "window", "instance", "debugMessenger", "surface",
            "device", "swapChain"}

VARIABLES pc, enableValidationLayers, handle, calls, exitCode, error,
          availableLayers, instanceCreateInfo, deviceCount, devIdx,
          deviceProps, physicalDevice, deviceCreateInfo, graphicsQueue,
          presentQueue, capabilities, swapCreateInfo, swapChainImages,
          closeFlag, skippedSuitable, framebufferSize, familyIndices,
          familiesExamined

vars == <<pc, enableValidationLayers, handle, calls, exitCode, error,
          availableLayers, instanceCreateInfo, deviceCount, devIdx,
          deviceProps, physicalDevice, deviceCreateInfo, graphicsQueue,
          presentQueue, capabilities, swapCreateInfo, swapChainImages,
          closeFlag, skippedSuitable, framebufferSize, familyIndices, familiesExamined>>

NoInstanceInfo == [called |-> FALSE, timesCalled |-> 0,
                   enabledExtensionNames |-> <<>>,
                   enabledLayerNames |-> <<>>, pNext |-> "nullptr"]
NoDeviceInfo == [called |-> FALSE, queueCreateInfos |-> <<>>,
                 enabledExtensionNames |-> <<>>, enabledLayerNames |-> <<>>]
NoSwapInfo == [called |-> FALSE, minImageCount |-> 0,
               imageFormat |-> "", imageColorSpace |-> "",
               imageExtent |-> Extent(0, 0),
               imageSharingMode |-> "", queueFamilyIndexCount |-> 0,
               pQueueFamilyIndices |-> <<>>, presentMode |-> ""]
NoQueue == <<nullopt, nullopt>>

\* the state main() starts from, at program position start, with the
\* driver reports props and caps and the toolkit's framebuffer size size
\* a default-constructed QueueFamilyIndices
NoIndices == [graphicsFamily |-> nullopt, presentFamily |-> nullopt]

Constructed(start, props, caps, size) ==
    /\ pc = start
    /\ handle = [x \in Handles |-> "unset"]
    /\ calls = <<>>
    /\ exitCode = "running"
    /\ error = ""
    \* the answers of vkEnumerateInstanceLayerProperties so far: none
    /\ availableLayers = <<>>
    /\ instanceCreateInfo = NoInstanceInfo
    /\ deviceCount = 0
    /\ devIdx = 0
    /\ deviceProps = props
    /\ physicalDevice = VK_NULL_HANDLE
    /\ deviceCreateInfo = NoDeviceInfo
    /\ graphicsQueue = NoQueue
    /\ presentQueue = NoQueue
    /\ capabilities = caps
    /\ swapCreateInfo = NoSwapInfo
    /\ swapChainImages = 0
    /\ closeFlag = FALSE
    /\ skippedSuitable = FALSE
    /\ framebufferSize = size
    /\ familyIndices = NoIndices
    /\ familiesExamined = 0

Init ==
    /\ enableValidationLayers \in BOOLEAN
    /\ Constructed("initWindow", NoAdapter, NoCapabilities, Extent(0, 0))

(* --------------------------- pure functions ---------------------------- *)
\* QueueFamilyIndices::isComplete
isComplete(indices) ==
    indices.graphicsFamily # nullopt /\ indices.presentFamily # nullopt

\* the loop of findQueueFamilies from family number i (1-based position,
\* the code's index is i - 1) with the roles assigned so far; it yields the
\* roles and the number of families whose flags and support were examined
RECURSIVE scanQueueFamilies(_, _, _, _)
scanQueueFamilies(queueFamilies, i, indices, presentSupport) ==
    IF i > Len(queueFamilies)
    THEN [indices |-> indices, examined |-> Len(queueFamilies)]
    ELSE LET g == IF queueFamilies[i].graphics THEN i - 1
                  ELSE indices.graphicsFamily
             \* the result of the query is not looked at; presentSupport is
             \* declared before the loop and keeps its value when the query
             \* writes nothing
             support == CASE queueFamilies[i].present = "VK_TRUE" -> TRUE
                          [] queueFamilies[i].present = "VK_FALSE" -> FALSE
                          [] OTHER -> presentSupport
             p == IF support THEN i - 1 ELSE indices.presentFamily
             next == [graphicsFamily |-> g, presentFamily |-> p]
         IN  IF isComplete(next) THEN [indices |-> next, examined |-> i]
             ELSE scanQueueFamilies(queueFamilies, i + 1, next, support)

findQueueFamilies(device) ==
    scanQueueFamilies(device.queueFamilies, 1,
                      [graphicsFamily |-> nullopt, presentFamily |-> nullopt],
                      FALSE).indices

\* the number of families findQueueFamilies examines on a device
familiesExaminedOn(device) ==
    scanQueueFamilies(device.queueFamilies, 1,
                      [graphicsFamily |-> nullopt, presentFamily |-> nullopt],
                      FALSE).examined

\* every required name is erased by one of the available names
checkDeviceExtensionSupport(device) ==
    Range(deviceExtensions) \ device.extensions = {}

\* the formats are read with the formats query; the present-mode count is
\* read with the formats query too, the vector is resized to that count
\* (value-initialised elements, 0 = VK_PRESENT_MODE_IMMEDIATE_KHR) and the
\* present-mode query that follows is handed no buffer
querySwapChainSupport(device, caps) ==
    [capabilities |-> caps,
     formats      |-> device.formats,
     presentModes |-> [i \in 1..Len(device.formats) |->
                          "VK_PRESENT_MODE_IMMEDIATE_KHR"]]

isDeviceSuitable(device) ==
    LET indices == findQueueFamilies(device)
        extensionsSupported == checkDeviceExtensionSupport(device)
        swapChainSupport == querySwapChainSupport(device, NoCapabilities)
        swapChainAdequate ==
            /\ extensionsSupported
            /\ swapChainSupport.formats # <<>>
            /\ swapChainSupport.presentModes # <<>>
    IN  /\ indices.graphicsFamily # nullopt
        /\ extensionsSupported
        /\ swapChainAdequate

layerSupportAssumed(layers) == TRUE
checkValidationLayerSupport(layers) ==
    \A i \in 1..Len(validationLayers) : validationLayers[i] \in layers

\* glfwGetRequiredInstanceExtensions yields nothing before glfwInit succeeded
getRequiredExtensionsWithoutDebugUtils(toolkitUp, validation) ==
    IF toolkitUp THEN glfwExtensions ELSE <<>>
getRequiredExtensions(toolkitUp, validation) ==
    (IF toolkitUp THEN glfwExtensions ELSE <<>>)
        \o (IF validation THEN <<VK_EXT_DEBUG_UTILS_EXTENSION_NAME>> ELSE <<>>)

\* the extension list of the instance create-info when the device extension
\* list it is first given is what reaches the driver
instanceExtensionsNotReplaced(toolkitUp, validation) == deviceExtensions
\* the extension list of the instance create-info: it is first given the
\* device extension list and then the result of getRequiredExtensions,
\* which replaces it before the driver is called
instanceExtensions(toolkitUp, validation) ==
    LET first == deviceExtensions
        extensions == getRequiredExtensions(toolkitUp, validation)
    IN  extensions

RECURSIVE firstPreferred(_, _)
firstPreferred(availableFormats, i) ==
    IF i > Len(availableFormats) THEN availableFormats[1]
    ELSE IF /\ availableFormats[i].format = "VK_FORMAT_B8G8R8A8_SRGB"
            /\ availableFormats[i].colorSpace = "VK_COLOR_SPACE_SRGB_NONLINEAR_KHR"
         THEN availableFormats[i]
         ELSE firstPreferred(availableFormats, i + 1)

chooseFirstSurfaceFormat(availableFormats) == availableFormats[1]
chooseSwapSurfaceFormat(availableFormats) == firstPreferred(availableFormats, 1)

chooseSwapPresentMode(availablePresentModes) ==
    IF \E i \in 1..Len(availablePresentModes) :
           availablePresentModes[i] = "VK_PRESENT_MODE_MAILBOX_KHR"
    THEN "VK_PRESENT_MODE_MAILBOX_KHR"
    ELSE "VK_PRESENT_MODE_FIFO_KHR"

\* std::clamp(v, lo, hi)
clamp(v, lo, hi) == IF v < lo THEN lo ELSE IF hi < v THEN hi ELSE v

chooseSwapExtentUnclamped(caps, framebuffer) ==
    IF caps.currentExtent.width # UINT32_MAX THEN caps.currentExtent
    ELSE framebuffer

chooseSwapExtent(caps, framebuffer) ==
    IF caps.currentExtent.width # UINT32_MAX THEN caps.currentExtent
    ELSE Extent(clamp(framebuffer.width, caps.minImageExtent.width,
                      caps.maxImageExtent.width),
                clamp(framebuffer.height, caps.minImageExtent.height,
                      caps.maxImageExtent.height))

\* uint32_t imageCount = minImageCount + 1, capped by a non-zero maxImageCount
imageCountMissingCap(caps) == (caps.minImageCount + 1) % (UINT32_MAX + 1)
imageCountFor(caps) ==
    LET imageCount == (caps.minImageCount + 1) % (UINT32_MAX + 1)
    IN  IF caps.maxImageCount > 0 /\ imageCount > caps.maxImageCount
        THEN caps.maxImageCount
        ELSE imageCount

\* the sharing fields createSwapChain fills in; the EXCLUSIVE branch leaves
\* queueFamilyIndexCount and pQueueFamilyIndices as createInfo{} zeroed them
sharingAlwaysExclusive(indices) ==
    [imageSharingMode |-> "VK_SHARING_MODE_EXCLUSIVE",
     queueFamilyIndexCount |-> 0, pQueueFamilyIndices |-> <<>>]
sharingFor(indices) ==
    IF indices.graphicsFamily # indices.presentFamily
    THEN [imageSharingMode |-> "VK_SHARING_MODE_CONCURRENT",
          queueFamilyIndexCount |-> 2,
          pQueueFamilyIndices |-> <<indices.graphicsFamily, indices.presentFamily>>]
    ELSE [imageSharingMode |-> "VK_SHARING_MODE_EXCLUSIVE",
          queueFamilyIndexCount |-> 0, pQueueFamilyIndices |-> <<>>]

\* float queuePriority = 1.0f
queuePriority == 1

\* the record the loop of createLogicalDevice pushes for a family
queueCreateInfo(queueFamily) ==
    [queueFamilyIndex |-> queueFamily, queueCount |-> 1,
     pQueuePriorities |-> <<queuePriority>>]

\* one record per role, shared family or not
queueCreateInfosPerRole(indices) ==
    <<queueCreateInfo(indices.graphicsFamily),
      queueCreateInfo(indices.presentFamily)>>
\* one record per element of the std::set of the two indices, which is
\* iterated in ascending order
queueCreateInfosFor(indices) ==
    LET g == indices.graphicsFamily
        p == indices.presentFamily
    IN  IF g = p THEN <<queueCreateInfo(g)>>
        ELSE IF g < p THEN <<queueCreateInfo(g), queueCreateInfo(p)>>
        ELSE <<queueCreateInfo(p), queueCreateInfo(g)>>

\* the destroy calls of cleanup(), in the order it issues them
cleanupSurfaceAfterInstance(validation) ==
    <<"swapChain", "device">>
        \o (IF validation THEN <<"debugMessenger">> ELSE <<>>)
        \o <<"instance", "surface", "window", "toolkit">>
cleanupToolkitBeforeWindow(validation) ==
    <<"swapChain", "device">>
        \o (IF validation THEN <<"debugMessenger">> ELSE <<>>)
        \o <<"surface", "instance", "toolkit", "window">>
cleanupDeviceBeforeSwapChain(validation) ==
    <<"device", "swapChain">>
        \o (IF validation THEN <<"debugMessenger">> ELSE <<>>)
        \o <<"surface", "instance", "window", "toolkit">>
cleanupOrder(validation) ==
    <<"swapChain", "device">>
        \o (IF validation THEN <<"debugMessenger">> ELSE <<>>)
        \o <<"surface", "instance", "window", "toolkit">>


(* -------------------- the stages of run(), in order -------------------- *)
\* run() calls initWindow, the six steps of initVulkan, mainLoop and cleanup
runOrder ==
    <<"initWindow", "createInstance", "setupDebugMessenger", "createSurface",
      "pickPhysicalDevice", "createLogicalDevice", "createSwapChain",
      "mainLoop", "cleanup">>

RECURSIVE following(_, _, _)
following(order, stage, i) ==
    IF i >= Len(order) THEN "exited"
    ELSE IF order[i] = stage THEN order[i + 1]
    ELSE following(order, stage, i + 1)

\* the surface is never created
afterSkippingSurface(stage) ==
    IF stage = "setupDebugMessenger" THEN "pickPhysicalDevice"
    ELSE following(runOrder, stage, 1)
\* where control goes when a stage returns normally
after(stage) == following(runOrder, stage, 1)

\* while(!glfwWindowShouldClose(window))
loopExitsWhenOpen(shouldClose) == shouldClose = "false"
loopExits(shouldClose) == shouldClose = "true"

(* ------------------------------ actions -------------------------------- *)
\* the three suitability predicates the claim names, on the driver's reports
AllPredicatesHold(adapter) ==
    /\ isComplete(findQueueFamilies(adapter))
    /\ Range(deviceExtensions) \subseteq adapter.extensions
    /\ adapter.formats # <<>>
    /\ adapter.presentModes # <<>>

\* the handles passed as arguments to the call that creates h
createArguments(h) ==
    CASE h = "debugMessenger" -> {"instance"}
      [] h = "surface" -> {"instance", "window"}
      [] h = "swapChain" -> {"device", "surface"}
      [] OTHER -> {}
\* the handles passed, besides h itself, to the call that destroys h
destroyArguments(h) ==
    CASE h = "swapChain" -> {"device"}
      [] h = "debugMessenger" -> {"instance"}
      [] h = "surface" -> {"instance"}
      [] OTHER -> {}

Create(h) == <<[op |-> "create", h |-> h, uses |-> createArguments(h)]>>
Destroy(h) == [op |-> "destroy", h |-> h, uses |-> destroyArguments(h)]

\* an exception leaves run() and is caught in main(), which prints what()
\* and returns EXIT_FAILURE; nothing is released on that path
throw(what) ==
    /\ pc' = "exited"
    /\ exitCode' = "EXIT_FAILURE"
    /\ error' = what

\* the process is killed inside a toolkit call (abort or fault)
crash ==
    /\ pc' = "exited"
    /\ exitCode' = "SIGNAL"
    /\ error' = "terminated inside the toolkit"

\* glfwInit and glfwCreateWindow; neither result is looked at
initWindow ==
    /\ pc = "initWindow"
    /\ \E initOk \in BOOLEAN, windowOk \in BOOLEAN :
          /\ windowOk => initOk
          /\ handle' = [handle EXCEPT
                          !["toolkit"] = IF initOk THEN "valid" ELSE "unset",
                          !["window"] = IF windowOk THEN "valid" ELSE "unset"]
          /\ calls' = calls
                        \o (IF initOk THEN Create("toolkit") ELSE <<>>)
                        \o (IF windowOk THEN Create("window") ELSE <<>>)
    /\ pc' = after("initWindow")
    /\ UNCHANGED <<enableValidationLayers, exitCode, error, availableLayers,
                   instanceCreateInfo, deviceCount, devIdx, deviceProps,
                   physicalDevice, deviceCreateInfo, graphicsQueue,
                   presentQueue, capabilities, swapCreateInfo,
                   swapChainImages, closeFlag, skippedSuitable, framebufferSize, familyIndices, familiesExamined>>

createInstance ==
    /\ pc = "createInstance"
    /\ \E layers \in LayerSets, result \in VkResults :
          \* && does not call checkValidationLayerSupport with validation off
          /\ availableLayers' = IF enableValidationLayers
                                THEN Append(availableLayers, layers)
                                ELSE availableLayers
          /\ IF enableValidationLayers /\ ~checkValidationLayerSupport(layers)
             THEN /\ throw("Requested validation layers not available!")
                  /\ UNCHANGED <<instanceCreateInfo, handle, calls>>
             ELSE /\ instanceCreateInfo' =
                        [called |-> TRUE,
                         timesCalled |-> instanceCreateInfo.timesCalled + 1,
                         enabledExtensionNames |->
                             instanceExtensions(handle["toolkit"] = "valid",
                                                enableValidationLayers),
                         enabledLayerNames |->
                             IF enableValidationLayers THEN validationLayers ELSE <<>>,
                         pNext |-> IF enableValidationLayers
                                   THEN "debugCreateInfo" ELSE "nullptr"]
                  /\ IF result = "VK_SUCCESS"
                     THEN /\ handle' = [handle EXCEPT !["instance"] = "valid"]
                          /\ calls' = calls \o Create("instance")
                          /\ pc' = after("createInstance")
                          /\ UNCHANGED <<exitCode, error>>
                     ELSE /\ throw("Failed to create instance")
                          /\ UNCHANGED <<handle, calls>>
    /\ UNCHANGED <<enableValidationLayers, deviceCount, devIdx, deviceProps,
                   physicalDevice, deviceCreateInfo, graphicsQueue,
                   presentQueue, capabilities, swapCreateInfo,
                   swapChainImages, closeFlag, skippedSuitable, framebufferSize, familyIndices, familiesExamined>>

\* CreateDebugUtilsMessengerEXT: VK_ERROR_EXTENSION_NOT_PRESENT when the
\* entry point does not resolve, else whatever the entry point returns
setupDebugMessenger ==
    /\ pc = "setupDebugMessenger"
    /\ IF ~enableValidationLayers
       THEN /\ pc' = after("setupDebugMessenger")
            /\ UNCHANGED <<handle, calls, exitCode, error>>
       ELSE \E result \in VkResults \cup {"VK_ERROR_EXTENSION_NOT_PRESENT"} :
               IF result = "VK_SUCCESS"
               THEN /\ handle' = [handle EXCEPT !["debugMessenger"] = "valid"]
                    /\ calls' = calls \o Create("debugMessenger")
                    /\ pc' = after("setupDebugMessenger")
                    /\ UNCHANGED <<exitCode, error>>
               ELSE /\ throw("Failed to set up debug messenger")
                    /\ UNCHANGED <<handle, calls>>
    /\ UNCHANGED <<enableValidationLayers, availableLayers, instanceCreateInfo,
                   deviceCount, devIdx, deviceProps, physicalDevice,
                   deviceCreateInfo, graphicsQueue, presentQueue, capabilities,
                   swapCreateInfo, swapChainImages, closeFlag, skippedSuitable, framebufferSize, familyIndices, familiesExamined>>

\* a toolkit call that is handed the window: with a window it returns one of
\* its results; with the null window of a failed initWindow its behaviour is
\* undefined: it may return any of them or end the process
WindowCallOutcomes(results) ==
    IF handle["window"] = "valid" THEN results ELSE results \cup {"crash"}

createSurface ==
    /\ pc = "createSurface"
    /\ \E result \in WindowCallOutcomes(VkResults) :
          CASE result = "VK_SUCCESS" ->
                   /\ handle' = [handle EXCEPT !["surface"] = "valid"]
                   /\ calls' = calls \o Create("surface")
                   /\ pc' = after("createSurface")
                   /\ UNCHANGED <<exitCode, error>>
            [] result = "crash" ->
                   /\ crash
                   /\ UNCHANGED <<handle, calls>>
            [] OTHER ->
                   /\ throw("Failed to create window surface")
                   /\ UNCHANGED <<handle, calls>>
    /\ UNCHANGED <<enableValidationLayers, availableLayers, instanceCreateInfo,
                   deviceCount, devIdx, deviceProps, physicalDevice,
                   deviceCreateInfo, graphicsQueue, presentQueue, capabilities,
                   swapCreateInfo, swapChainImages, closeFlag, skippedSuitable, framebufferSize, familyIndices, familiesExamined>>

\* vkEnumeratePhysicalDevices: the count, then the handles 1..deviceCount
pickPhysicalDevice ==
    /\ pc = "pickPhysicalDevice"
    /\ \E count \in 0..MaxDevices :
          /\ deviceCount' = count
          /\ IF count = 0
             THEN /\ throw("Failed to find GPU's with Vulkan support")
                  /\ UNCHANGED devIdx
             ELSE /\ pc' = "pickLoop"
                  /\ devIdx' = 1
                  /\ UNCHANGED <<exitCode, error>>
    /\ UNCHANGED <<enableValidationLayers, handle, calls, availableLayers,
                   instanceCreateInfo, deviceProps, physicalDevice,
                   deviceCreateInfo, graphicsQueue, presentQueue, capabilities,
                   swapCreateInfo, swapChainImages, closeFlag, skippedSuitable, framebufferSize, familyIndices, familiesExamined>>

\* one iteration of the loop over devices: the driver's answers about adapter
\* devIdx arrive when isDeviceSuitable asks for them and are kept for the
\* adapter that becomes physicalDevice only; the loop stops at the first
\* adapter it accepts, and the check after the loop throws when the last
\* adapter was refused too.  deviceCount and the loop position are locals of
\* pickPhysicalDevice and are gone once it returns.  skippedSuitable is a
\* history variable: some adapter the loop passed over satisfied every
\* predicate.
pickLoop ==
    /\ pc = "pickLoop"
    /\ \E adapter \in Adapters :
          IF isDeviceSuitable(adapter)
          THEN /\ physicalDevice' = devIdx
               /\ deviceProps' = adapter
               /\ pc' = after("pickPhysicalDevice")
               /\ deviceCount' = 0
               /\ devIdx' = 0
               /\ UNCHANGED <<exitCode, error, skippedSuitable>>
          ELSE /\ skippedSuitable' = (skippedSuitable \/ AllPredicatesHold(adapter))
               /\ UNCHANGED <<physicalDevice, deviceProps, deviceCount>>
               /\ IF devIdx < deviceCount
                  THEN /\ devIdx' = devIdx + 1
                       /\ UNCHANGED <<pc, exitCode, error>>
                  ELSE /\ throw("Failed to find a suitable GPU!")
                       /\ UNCHANGED devIdx
    /\ UNCHANGED <<enableValidationLayers, handle, calls, availableLayers,
                   instanceCreateInfo, deviceCreateInfo,
                   graphicsQueue, presentQueue, capabilities, swapCreateInfo,
                   swapChainImages, closeFlag, framebufferSize, familyIndices, familiesExamined>>

\* value() on an empty optional throws std::bad_optional_access, which is a
\* std::exception and is caught in main() like the runtime_errors
createLogicalDevice ==
    /\ pc = "createLogicalDevice"
    /\ familyIndices' = findQueueFamilies(deviceProps)
    /\ familiesExamined' = familiesExaminedOn(deviceProps)
    /\ LET indices == familyIndices'
       IN  IF ~isComplete(indices)
           THEN /\ throw("bad optional access")
                /\ UNCHANGED <<deviceCreateInfo, handle, calls, graphicsQueue,
                               presentQueue>>
           ELSE /\ deviceCreateInfo' =
                      [called |-> TRUE,
                       queueCreateInfos |-> queueCreateInfosFor(indices),
                       enabledExtensionNames |-> deviceExtensions,
                       enabledLayerNames |->
                           IF enableValidationLayers THEN validationLayers ELSE <<>>]
                /\ \E result \in VkResults :
                      IF result = "VK_SUCCESS"
                      THEN /\ handle' = [handle EXCEPT !["device"] = "valid"]
                           /\ calls' = calls \o Create("device")
                           /\ graphicsQueue' = <<indices.graphicsFamily, 0>>
                           /\ presentQueue' = <<indices.presentFamily, 0>>
                           /\ pc' = after("createLogicalDevice")
                           /\ UNCHANGED <<exitCode, error>>
                      ELSE /\ throw("Failed to create logical device")
                           /\ UNCHANGED <<handle, calls, graphicsQueue, presentQueue>>
    /\ UNCHANGED <<enableValidationLayers, availableLayers, instanceCreateInfo,
                   deviceCount, devIdx, deviceProps, physicalDevice,
                   capabilities, swapCreateInfo, swapChainImages, closeFlag, skippedSuitable, framebufferSize>>


\* image handles vkGetSwapchainImagesKHR may report for a requested count
ImagesCreated(imageCount) == {imageCount, imageCount + 1}

createSwapChain ==
    /\ pc = "createSwapChain"
    /\ \E caps \in Capabilities, framebuffer \in FramebufferSizes,
          sizeQuery \in WindowCallOutcomes({"ok"}), result \in VkResults :
          LET details == querySwapChainSupport(deviceProps, caps)
              surfaceFormat == chooseSwapSurfaceFormat(details.formats)
              presentMode == chooseSwapPresentMode(details.presentModes)
              extent == chooseSwapExtent(details.capabilities, framebuffer)
              imageCount == imageCountFor(details.capabilities)
              indices == findQueueFamilies(deviceProps)
              sharing == sharingFor(indices)
          IN  /\ capabilities' = caps
              /\ framebufferSize' =
                    IF caps.currentExtent.width = UINT32_MAX /\ sizeQuery # "crash"
                    THEN framebuffer ELSE framebufferSize
              /\ familyIndices' =
                    IF caps.currentExtent.width = UINT32_MAX /\ sizeQuery = "crash"
                    THEN familyIndices ELSE indices
              /\ familiesExamined' =
                    IF caps.currentExtent.width = UINT32_MAX /\ sizeQuery = "crash"
                    THEN familiesExamined ELSE familiesExaminedOn(deviceProps)
              /\ IF caps.currentExtent.width = UINT32_MAX /\ sizeQuery = "crash"
                 THEN /\ crash
                      /\ UNCHANGED <<swapCreateInfo, handle, calls, swapChainImages>>
                 ELSE IF ~isComplete(indices)
                 THEN /\ throw("bad optional access")
                      /\ UNCHANGED <<swapCreateInfo, handle, calls, swapChainImages>>
                 ELSE /\ swapCreateInfo' =
                            [called |-> TRUE,
                             minImageCount |-> imageCount,
                             imageFormat |-> surfaceFormat.format,
                             imageColorSpace |-> surfaceFormat.colorSpace,
                             imageExtent |-> extent,
                             imageSharingMode |-> sharing.imageSharingMode,
                             queueFamilyIndexCount |-> sharing.queueFamilyIndexCount,
                             pQueueFamilyIndices |-> sharing.pQueueFamilyIndices,
                             presentMode |-> presentMode]
                      /\ IF result = "VK_SUCCESS"
                         THEN /\ handle' = [handle EXCEPT !["swapChain"] = "valid"]
                              /\ calls' = calls \o Create("swapChain")
                              /\ \E n \in ImagesCreated(imageCount) :
                                    swapChainImages' = n
                              /\ pc' = after("createSwapChain")
                              /\ UNCHANGED <<exitCode, error>>
                         ELSE /\ throw("Failed to create swap chain")
                              /\ UNCHANGED <<handle, calls, swapChainImages>>
    /\ UNCHANGED <<enableValidationLayers, availableLayers, instanceCreateInfo,
                   deviceCount, devIdx, deviceProps, physicalDevice,
                   deviceCreateInfo, graphicsQueue, presentQueue, closeFlag,
                   skippedSuitable>>

\* run() enters mainLoop()
mainLoop ==
    /\ pc = "mainLoop"
    /\ pc' = "glfwWindowShouldClose"
    /\ UNCHANGED <<enableValidationLayers, handle, calls, exitCode, error,
                   availableLayers, instanceCreateInfo, deviceCount, devIdx,
                   deviceProps, physicalDevice, deviceCreateInfo,
                   graphicsQueue, presentQueue, capabilities, swapCreateInfo,
                   swapChainImages, closeFlag, skippedSuitable,
                   framebufferSize, familyIndices, familiesExamined>>

\* the loop condition: the close flag of the window is read
glfwWindowShouldClose ==
    /\ pc = "glfwWindowShouldClose"
    /\ \E shouldClose \in WindowCallOutcomes({IF closeFlag THEN "true" ELSE "false"}
                             \cup (IF handle["window"] = "valid" THEN {}
                                   ELSE {"true", "false"})) :
          IF shouldClose = "crash" THEN crash
          ELSE /\ pc' = IF loopExits(shouldClose) THEN after("mainLoop")
                        ELSE "glfwPollEvents"
               /\ UNCHANGED <<exitCode, error>>
    /\ UNCHANGED <<enableValidationLayers, handle, calls, availableLayers,
                   instanceCreateInfo, deviceCount, devIdx, deviceProps,
                   physicalDevice, deviceCreateInfo, graphicsQueue,
                   presentQueue, capabilities, swapCreateInfo,
                   swapChainImages, closeFlag, skippedSuitable,
                   framebufferSize, familyIndices, familiesExamined>>

\* the loop body: pending events are served; a close request sets the flag
\* of the window, and nothing in the program clears it
glfwPollEvents ==
    /\ pc = "glfwPollEvents"
    /\ \E closeRequested \in BOOLEAN :
          closeFlag' = (closeFlag \/ (closeRequested /\ handle["window"] = "valid"))
    /\ pc' = "glfwWindowShouldClose"
    /\ UNCHANGED <<enableValidationLayers, handle, calls, exitCode, error,
                   availableLayers, instanceCreateInfo, deviceCount, devIdx,
                   deviceProps, physicalDevice, deviceCreateInfo,
                   graphicsQueue, presentQueue, capabilities, swapCreateInfo,
                   swapChainImages, skippedSuitable, framebufferSize, familyIndices, familiesExamined>>

\* glfwDestroyWindow(NULL) and glfwTerminate() on a toolkit that is not up
\* do nothing; the messenger's destroy entry point resolves on the instance
\* its create entry point resolved on
releases(h) == h \notin {"window", "toolkit"} \/ handle[h] = "valid"

\* cleanup(), then run() and main() return
cleanup ==
    /\ pc = "cleanup"
    /\ LET order == cleanupOrder(enableValidationLayers)
           done == SelectSeq(order, releases)
       IN  /\ calls' = calls \o [i \in 1..Len(done) |-> Destroy(done[i])]
           /\ handle' = [x \in Handles |->
                           IF x \in Range(done) THEN "destroyed" ELSE handle[x]]
    /\ pc' = after("cleanup")
    /\ exitCode' = "EXIT_SUCCESS"
    /\ UNCHANGED <<enableValidationLayers, error, availableLayers,
                   instanceCreateInfo, deviceCount, devIdx, deviceProps,
                   physicalDevice, deviceCreateInfo, graphicsQueue,
                   presentQueue, capabilities, swapCreateInfo,
                   swapChainImages, closeFlag, skippedSuitable, framebufferSize, familyIndices, familiesExamined>>

Next ==
    \/ initWindow
    \/ createInstance
    \/ setupDebugMessenger
    \/ createSurface
    \/ pickPhysicalDevice
    \/ pickLoop
    \/ createLogicalDevice
    \/ createSwapChain
    \/ mainLoop
    \/ glfwWindowShouldClose
    \/ glfwPollEvents
    \/ cleanup

Spec == Init /\ [][Next]_vars

\* the process is scheduled until it ends: a step that can be taken is taken
FairSpec == Spec /\ WF_vars(Next)


(* ------------------ chooseSwapSurfaceFormat on its own ------------------ *)
\* longest list of surface formats handed to chooseSwapSurfaceFormat
MaxFormats == 3

SurfaceFormatPairs ==
    [format : {"VK_FORMAT_B8G8R8A8_SRGB", "VK_FORMAT_B8G8R8A8_UNORM"},
     colorSpace : {"VK_COLOR_SPACE_SRGB_NONLINEAR_KHR",
                   "VK_COLOR_SPACE_DISPLAY_P3_NONLINEAR_EXT"}]
ReportedFormatLists ==
    UNION {[1..n -> SurfaceFormatPairs] : n \in 1..MaxFormats}

InitSurfaceFormat ==
    /\ enableValidationLayers = FALSE
    /\ \E formats \in ReportedFormatLists :
          Constructed("chooseSwapSurfaceFormat",
                      [NoAdapter EXCEPT !.formats = formats],
                      NoCapabilities, Extent(0, 0))

\* the call createSwapChain makes on details.formats and the two fields it
\* copies from the result
callChooseSwapSurfaceFormat ==
    /\ pc = "chooseSwapSurfaceFormat"
    /\ LET surfaceFormat == chooseSwapSurfaceFormat(deviceProps.formats)
       IN  swapCreateInfo' = [swapCreateInfo EXCEPT
                                 !.imageFormat = surfaceFormat.format,
                                 !.imageColorSpace = surfaceFormat.colorSpace]
    /\ pc' = "returned"
    /\ UNCHANGED <<enableValidationLayers, handle, calls, exitCode, error,
                   availableLayers, instanceCreateInfo, deviceCount, devIdx,
                   deviceProps, physicalDevice, deviceCreateInfo,
                   graphicsQueue, presentQueue, capabilities,
                   swapChainImages, closeFlag, skippedSuitable,
                   framebufferSize, familyIndices, familiesExamined>>

SpecSurfaceFormat == InitSurfaceFormat /\ [][callChooseSwapSurfaceFormat]_vars

(* --------------------- findQueueFamilies on its own --------------------- *)
\* longest list of queue families handed to findQueueFamilies
MaxScanFamilies == 3

ScannedFamilyLists == UNION {[1..n -> QueueFamily] : n \in 0..MaxScanFamilies}

InitQueueFamilies ==
    /\ enableValidationLayers = FALSE
    /\ \E queueFamilies \in ScannedFamilyLists :
          Constructed("findQueueFamilies",
                      [NoAdapter EXCEPT !.queueFamilies = queueFamilies],
                      NoCapabilities, Extent(0, 0))

\* QueueFamilyIndices indices = findQueueFamilies(physicalDevice)
callFindQueueFamilies ==
    /\ pc = "findQueueFamilies"
    /\ familyIndices' = findQueueFamilies(deviceProps)
    /\ familiesExamined' = familiesExaminedOn(deviceProps)
    /\ pc' = "returned"
    /\ UNCHANGED <<enableValidationLayers, handle, calls, exitCode, error,
                   availableLayers, instanceCreateInfo, deviceCount, devIdx,
                   deviceProps, physicalDevice, deviceCreateInfo,
                   graphicsQueue, presentQueue, capabilities, swapCreateInfo,
                   swapChainImages, closeFlag, skippedSuitable,
                   framebufferSize>>

SpecQueueFamilies == InitQueueFamilies /\ [][callFindQueueFamilies]_vars

(* ---------------------- chooseSwapExtent on its own --------------------- *)
ExtentBounds == {<<Extent(1, 1), Extent(UINT32_MAX - 1, UINT32_MAX - 1)>>,
                 <<Extent(640, 480), Extent(1280, 1024)>>,
                 <<Extent(800, 600), Extent(800, 600)>>}
ReportedCurrentExtents ==
    {Extent(WIDTH, HEIGHT), Extent(WIDTH, UINT32_MAX),
     Extent(UINT32_MAX, HEIGHT), Extent(UINT32_MAX, UINT32_MAX)}
ExtentCapabilities ==
    {[NoCapabilities EXCEPT !.currentExtent = e,
                            !.minImageExtent = b[1],
                            !.maxImageExtent = b[2]] :
        e \in ReportedCurrentExtents, b \in ExtentBounds}
ReportedFramebufferSizes ==
    {Extent(w, h) : w \in {0, 320, 640, WIDTH, 1600}, h \in {0, HEIGHT, 1024, 1200}}

InitSwapExtent ==
    /\ enableValidationLayers = FALSE
    /\ \E caps \in ExtentCapabilities :
          Constructed("chooseSwapExtent", NoAdapter, caps, Extent(0, 0))

\* VkExtent2D extent = chooseSwapExtent(details.capabilities), on a window
\* that exists; the size query is made only on the clamping branch
callChooseSwapExtent ==
    /\ pc = "chooseSwapExtent"
    /\ \E framebuffer \in ReportedFramebufferSizes :
          /\ framebufferSize' =
                IF capabilities.currentExtent.width = UINT32_MAX
                THEN framebuffer ELSE framebufferSize
          /\ swapCreateInfo' =
                [swapCreateInfo EXCEPT
                    !.imageExtent = chooseSwapExtent(capabilities, framebuffer)]
    /\ pc' = "returned"
    /\ UNCHANGED <<enableValidationLayers, handle, calls, exitCode, error,
                   availableLayers, instanceCreateInfo, deviceCount, devIdx,
                   deviceProps, physicalDevice, deviceCreateInfo,
                   graphicsQueue, presentQueue, capabilities,
                   swapChainImages, closeFlag, skippedSuitable,
                   familyIndices, familiesExamined>>

SpecSwapExtent == InitSwapExtent /\ [][callChooseSwapExtent]_vars

(* --------------------------- the call history -------------------------- *)
IsCreate(e) == e.op = "create"
IsDestroy(e) == e.op = "destroy"
HandlesOf(events) == [i \in 1..Len(events) |-> events[i].h]
\* the handles acquired, in acquisition order, and those destroyed, in order
AcquiredSeq == HandlesOf(SelectSeq(calls, IsCreate))
DestroyedSeq == HandlesOf(SelectSeq(calls, IsDestroy))
Reverse(s) == [i \in 1..Len(s) |-> s[Len(s) + 1 - i]]
NoDuplicates(s) == \A i, j \in 1..Len(s) : s[i] = s[j] => i = j
Position(s, x) == CHOOSE i \in 1..Len(s) : s[i] = x
Before(s, x, y) ==
    /\ x \in Range(s)
    /\ y \in Range(s)
    /\ Position(s, x) < Position(s, y)

\* the handles a run with every stage successful acquires
ExpectedHandles ==
    IF enableValidationLayers THEN Handles ELSE Handles \ {"debugMessenger"}
InitSucceeded == Range(AcquiredSeq) = ExpectedHandles
\* run() returned after every stage succeeded and the close flag was seen
CleanRun == pc = "exited" /\ exitCode = "EXIT_SUCCESS" /\ InitSucceeded
FailedRun == pc = "exited" /\ exitCode = "EXIT_FAILURE"
PickSucceeded == physicalDevice # VK_NULL_HANDLE

(* ------------------------------- C1 ------------------------------------ *)
\* C1 as stated: after a run in which every stage succeeded and the window
\* was closed, the destroy calls are exactly the acquisitions in strict
\* reverse order (same set, each once).
C1_StrictReverseOrder ==
    CleanRun => DestroyedSeq = Reverse(AcquiredSeq)

\* C1 amended: after such a run the handles destroyed are the handles
\* acquired, each destroyed exactly once, and of two handles the one acquired
\* later is destroyed earlier, except that the debug messenger is destroyed
\* before the surface although the surface was acquired after it.
C1_ReverseOrderButMessenger ==
    CleanRun =>
        /\ Range(DestroyedSeq) = Range(AcquiredSeq)
        /\ NoDuplicates(DestroyedSeq)
        /\ NoDuplicates(AcquiredSeq)
        /\ \A a, b \in Range(AcquiredSeq) :
              Before(AcquiredSeq, a, b) =>
                  IF a = "debugMessenger" /\ b = "surface"
                  THEN Before(DestroyedSeq, a, b)
                  ELSE Before(DestroyedSeq, b, a)

C1_Witness ==
    /\ CleanRun
    /\ enableValidationLayers
    /\ Len(DestroyedSeq) = Cardinality(Handles)

(* ------------------------------- C2 ------------------------------------ *)
\* C2: when an initialization stage fails, every handle acquired before it
\* has been destroyed exactly once by the time the process has exited, and
\* nothing that was never acquired has been destroyed.
C2_FailureReleasesAcquired ==
    FailedRun =>
        /\ \A h \in Range(AcquiredSeq) :
              Cardinality({i \in 1..Len(DestroyedSeq) : DestroyedSeq[i] = h}) = 1
        /\ Range(DestroyedSeq) \subseteq Range(AcquiredSeq)

(* ------------------------------- C3 ------------------------------------ *)
\* C3: the process ends with exit code 0 exactly when every initialization
\* stage (toolkit and window included) succeeded and the loop ended on the
\* close flag of the window; every other run ends non-zero.
C3_ExitCodeZeroIffCleanRun ==
    pc = "exited" =>
        (exitCode = "EXIT_SUCCESS" <=> (InitSucceeded /\ closeFlag))

(* ------------------------------- C4 ------------------------------------ *)
\* C4: whenever pickPhysicalDevice has selected a device, findQueueFamilies
\* on that device yields both a graphics and a presentation family index.
C4_SelectedDeviceComplete ==
    PickSucceeded => isComplete(findQueueFamilies(deviceProps))

(* ------------------------------- C5 ------------------------------------ *)
\* C5: whenever pickPhysicalDevice has selected a device, the driver reports
\* at least one surface format and at least one present mode for it.
C5_SelectedDeviceHasFormatsAndModes ==
    PickSucceeded =>
        /\ deviceProps.formats # <<>>
        /\ deviceProps.presentModes # <<>>

(* ------------------------------- C6 ------------------------------------ *)
\* C6: the device selected is the first in enumeration order for which all
\* predicates hold (every adapter passed over fails one, the selected one
\* passes all); zero adapters give the no-Vulkan-GPU error, and adapters of
\* which none passes give the no-suitable-GPU error.
C6_FirstSuitableAdapter ==
    /\ ~skippedSuitable
    /\ PickSucceeded => AllPredicatesHold(deviceProps)
    /\ (pc = "exited" /\ deviceCount = 0 /\ "surface" \in Range(AcquiredSeq))
          => error = "Failed to find GPU's with Vulkan support"
    /\ error = "Failed to find a suitable GPU!" => deviceCount > 0

(* ------------------------------- C7 ------------------------------------ *)
\* C7: the debug-utils extension is in the list passed to instance creation
\* iff validation is enabled; a debug messenger is created, after the
\* instance, iff validation is enabled; and once the instance is destroyed
\* the messenger was destroyed before it iff validation is enabled.
C7_DebugMessengerIffValidation ==
    /\ instanceCreateInfo.called =>
          (VK_EXT_DEBUG_UTILS_EXTENSION_NAME
               \in Range(instanceCreateInfo.enabledExtensionNames)
           <=> enableValidationLayers)
    /\ "debugMessenger" \in Range(AcquiredSeq) =>
          /\ enableValidationLayers
          /\ Before(AcquiredSeq, "instance", "debugMessenger")
    /\ "surface" \in Range(AcquiredSeq) =>
          ("debugMessenger" \in Range(AcquiredSeq) <=> enableValidationLayers)
    /\ "instance" \in Range(DestroyedSeq) =>
          (Before(DestroyedSeq, "debugMessenger", "instance")
           <=> enableValidationLayers)

C7_Witness ==
    /\ enableValidationLayers
    /\ Before(AcquiredSeq, "instance", "debugMessenger")
    /\ Before(DestroyedSeq, "debugMessenger", "instance")
    /\ VK_EXT_DEBUG_UTILS_EXTENSION_NAME
           \in Range(instanceCreateInfo.enabledExtensionNames)

(* ------------------------------- C8 ------------------------------------ *)
\* C8 as stated: the image count c requested satisfies
\* minImageCount + 1 <= c and (maxImageCount = 0 or c <= maxImageCount).
C8_ImageCountAboveMinimum ==
    swapCreateInfo.called =>
        /\ capabilities.minImageCount + 1 <= swapCreateInfo.minImageCount
        /\ \/ capabilities.maxImageCount = 0
           \/ swapCreateInfo.minImageCount <= capabilities.maxImageCount

\* C8 amended: with minImageCount + 1 taken in the unsigned arithmetic of
\* the code, the image count c requested satisfies (minImageCount + 1 <= c
\* or c = maxImageCount > 0) and (maxImageCount = 0 or c <= maxImageCount).
C8_ImageCountCapped ==
    swapCreateInfo.called =>
        LET c == swapCreateInfo.minImageCount
            desired == (capabilities.minImageCount + 1) % (UINT32_MAX + 1)
        IN  /\ \/ desired <= c
               \/ (capabilities.maxImageCount > 0 /\ c = capabilities.maxImageCount)
            /\ \/ capabilities.maxImageCount = 0
               \/ c <= capabilities.maxImageCount

C8_Witness ==
    /\ swapCreateInfo.called
    /\ capabilities.maxImageCount > 0
    /\ capabilities.minImageCount + 1 > capabilities.maxImageCount
    /\ swapCreateInfo.minImageCount = capabilities.maxImageCount

(* ------------------------------- C9 ------------------------------------ *)
\* C9: the swap chain is requested CONCURRENT, with a list of exactly the
\* two family indices, iff the graphics family differs from the presentation
\* family; otherwise EXCLUSIVE with no family index list.
C9_SharingMode ==
    swapCreateInfo.called =>
        LET g == graphicsQueue[1]
            p == presentQueue[1]
        IN  /\ swapCreateInfo.imageSharingMode = "VK_SHARING_MODE_CONCURRENT" <=> g # p
            /\ g # p =>
                  /\ swapCreateInfo.queueFamilyIndexCount = 2
                  /\ swapCreateInfo.pQueueFamilyIndices = <<g, p>>
            /\ g = p =>
                  /\ swapCreateInfo.imageSharingMode = "VK_SHARING_MODE_EXCLUSIVE"
                  /\ swapCreateInfo.queueFamilyIndexCount = 0
                  /\ swapCreateInfo.pQueueFamilyIndices = <<>>

C9_Witness ==
    /\ swapCreateInfo.called
    /\ graphicsQueue[1] # presentQueue[1]
    /\ swapCreateInfo.imageSharingMode = "VK_SHARING_MODE_CONCURRENT"

(* ------------------------------- C10 ----------------------------------- *)
\* C10: the present mode passed to swap-chain creation is MAILBOX when the
\* driver reports MAILBOX for the selected device and surface, else FIFO.
C10_PresentModeMailboxIfReported ==
    swapCreateInfo.called =>
        swapCreateInfo.presentMode =
            IF "VK_PRESENT_MODE_MAILBOX_KHR" \in Range(deviceProps.presentModes)
            THEN "VK_PRESENT_MODE_MAILBOX_KHR"
            ELSE "VK_PRESENT_MODE_FIFO_KHR"


(* ------------------------------- C11 ----------------------------------- *)
IsPreferredFormat(f) ==
    /\ f.format = "VK_FORMAT_B8G8R8A8_SRGB"
    /\ f.colorSpace = "VK_COLOR_SPACE_SRGB_NONLINEAR_KHR"
ChosenFormat ==
    [format |-> swapCreateInfo.imageFormat,
     colorSpace |-> swapCreateInfo.imageColorSpace]

\* C11: for a non-empty reported list, the format chosen is the first
\* (BGRA8 sRGB, sRGB nonlinear) pair of the list when the list holds one,
\* and the first pair of the list otherwise.
C11_PreferredElseFirstFormat ==
    pc = "returned" =>
        LET formats == deviceProps.formats
            preferred == {i \in 1..Len(formats) : IsPreferredFormat(formats[i])}
        IN  IF preferred # {}
            THEN /\ IsPreferredFormat(ChosenFormat)
                 /\ \E i \in preferred :
                       /\ formats[i] = ChosenFormat
                       /\ \A j \in preferred : i <= j
            ELSE ChosenFormat = formats[1]

\* a list whose first pair is not the preferred one and that holds it later
C11_Witness ==
    /\ pc = "returned"
    /\ Len(deviceProps.formats) > 1
    /\ ~IsPreferredFormat(deviceProps.formats[1])
    /\ IsPreferredFormat(ChosenFormat)


(* ------------------------------- C12 ----------------------------------- *)
\* the family at a returned index (the code counts from 0)
FamilyAt(index) == deviceProps.queueFamilies[index + 1]

\* C12: the roles returned by findQueueFamilies are sound: a returned
\* graphics index names a family with the GRAPHICS flag, and a returned
\* presentation index names a family that reported presentation support
\* for the surface.
C12_RolesSound ==
    pc = "returned" =>
        /\ familyIndices.graphicsFamily # nullopt =>
              FamilyAt(familyIndices.graphicsFamily).graphics
        /\ familyIndices.presentFamily # nullopt =>
              FamilyAt(familyIndices.presentFamily).present = "VK_TRUE"


(* ------------------------------- C13 ----------------------------------- *)
\* v moved into [lo, hi]
Clamped(v, lo, hi) ==
    CHOOSE r \in {v, lo, hi} :
        /\ lo <= r /\ r <= hi
        /\ (lo <= v /\ v <= hi) => r = v
        /\ v < lo => r = lo
        /\ v > hi => r = hi

\* C13: chooseSwapExtent returns currentExtent unchanged when
\* currentExtent.width is not 0xFFFFFFFF; otherwise it returns the
\* framebuffer pixel size with width and height each clamped into
\* [minImageExtent, maxImageExtent]; framebuffer 1600x1200 with minimum
\* 640x480 and maximum 1280x1024 gives 1280x1024.
C13_ExtentVerbatimOrClamped ==
    pc = "returned" =>
        /\ capabilities.currentExtent.width # UINT32_MAX =>
              swapCreateInfo.imageExtent = capabilities.currentExtent
        /\ capabilities.currentExtent.width = UINT32_MAX =>
              /\ swapCreateInfo.imageExtent.width =
                    Clamped(framebufferSize.width,
                            capabilities.minImageExtent.width,
                            capabilities.maxImageExtent.width)
              /\ swapCreateInfo.imageExtent.height =
                    Clamped(framebufferSize.height,
                            capabilities.minImageExtent.height,
                            capabilities.maxImageExtent.height)
        /\ ( /\ capabilities.currentExtent.width = UINT32_MAX
             /\ framebufferSize = Extent(1600, 1200)
             /\ capabilities.minImageExtent = Extent(640, 480)
             /\ capabilities.maxImageExtent = Extent(1280, 1024) )
           => swapCreateInfo.imageExtent = Extent(1280, 1024)

\* the worked example: 1600x1200 clamped to the maximum 1280x1024
C13_Witness ==
    /\ pc = "returned"
    /\ capabilities.currentExtent.width = UINT32_MAX
    /\ framebufferSize = Extent(1600, 1200)
    /\ capabilities.minImageExtent = Extent(640, 480)
    /\ capabilities.maxImageExtent = Extent(1280, 1024)
    /\ swapCreateInfo.imageExtent = Extent(1280, 1024)


(* ------------------------------- C14 ----------------------------------- *)
\* C14: on a run that reaches teardown the destroy calls are issued in
\* exactly this order: swap chain, logical device, debug messenger (only if
\* validation is enabled), surface, instance, window, toolkit termination.
\* (The window and toolkit calls are counted when there is a window and a
\* toolkit to release.)
C14_TeardownOrder ==
    (pc = "exited" /\ exitCode = "EXIT_SUCCESS") =>
        LET Released(h) ==
                h \notin {"window", "toolkit"} \/ h \in Range(AcquiredSeq)
        IN  DestroyedSeq =
                SelectSeq(<<"swapChain", "device">>
                              \o (IF enableValidationLayers
                                  THEN <<"debugMessenger">> ELSE <<>>)
                              \o <<"surface", "instance", "window", "toolkit">>,
                          Released)

C14_Witness ==
    /\ pc = "exited"
    /\ enableValidationLayers
    /\ DestroyedSeq = <<"swapChain", "device", "debugMessenger", "surface",
                        "instance", "window", "toolkit">>

(* ------------------------------- C15 ----------------------------------- *)
\* child and parent handles: the parent is an argument of the child's
\* creation, or the child lives inside it
ParentOf ==
    {<<"swapChain", "device">>, <<"device", "instance">>,
     <<"surface", "instance">>, <<"debugMessenger", "instance">>}
        \cup {<<h, "window">> : h \in Handles \ {"window", "toolkit"}}
        \cup {<<h, "toolkit">> : h \in Handles \ {"toolkit"}}

\* C15: in every reachable state no handle is used (passed to a query,
\* create or get call) after its destroy call, and every child handle is
\* destroyed before its parent: swap chain before logical device, logical
\* device, surface and debug messenger before instance, everything before
\* the window and the toolkit.
C15_NoUseAfterDestroyChildrenFirst ==
    /\ \A i, j \in 1..Len(calls) :
          (i < j /\ IsDestroy(calls[i])) =>
              /\ calls[i].h \notin calls[j].uses
              /\ calls[i].h # calls[j].h
    \* the queries, creations and gets of the stages come before any destroy
    /\ pc # "exited" => \A h \in Handles : handle[h] # "destroyed"
    /\ \A pair \in ParentOf :
          pair[2] \in Range(DestroyedSeq) =>
              /\ pair[1] \in Range(AcquiredSeq) => pair[1] \in Range(DestroyedSeq)
              /\ pair[1] \in Range(DestroyedSeq) =>
                    Before(DestroyedSeq, pair[1], pair[2])

C15_Witness ==
    /\ pc = "exited"
    /\ \A h \in ExpectedHandles : handle[h] = "destroyed"
    /\ \E i \in 1..Len(calls) :
          IsDestroy(calls[i]) /\ calls[i].h = "swapChain"
              /\ calls[i].uses = {"device"}


(* ------------------------------- C16 ----------------------------------- *)
\* the lifecycle state of run() at each position
Lifecycle ==
    CASE pc = "initWindow" -> "Uninit"
      [] pc = "createInstance" -> "WindowUp"
      [] pc = "setupDebugMessenger" -> "InstanceUp"
      [] pc = "createSurface" ->
             IF enableValidationLayers THEN "DebugUp" ELSE "InstanceUp"
      [] pc \in {"pickPhysicalDevice", "pickLoop", "createLogicalDevice"} ->
             "SurfaceUp"
      [] pc = "createSwapChain" -> "DeviceUp"
      [] pc = "mainLoop" -> "SwapUp"
      [] pc \in {"glfwWindowShouldClose", "glfwPollEvents"} -> "Running"
      [] pc = "cleanup" -> "TearingDown"
      [] pc = "exited" /\ exitCode = "EXIT_SUCCESS" -> "Done"
      [] OTHER -> "Failed"

LifecycleOrder ==
    <<"Uninit", "WindowUp", "InstanceUp">>
        \o (IF enableValidationLayers THEN <<"DebugUp">> ELSE <<>>)
        \o <<"SurfaceUp", "DeviceUp", "SwapUp", "Running", "TearingDown", "Done">>

\* what has been acquired when a lifecycle state is entered
UpIn(state) ==
    CASE state = "Uninit" -> <<>>
      [] state = "WindowUp" -> <<"toolkit", "window">>
      [] state = "InstanceUp" -> <<"toolkit", "window", "instance">>
      [] state = "DebugUp" ->
             <<"toolkit", "window", "instance", "debugMessenger">>
      [] state = "SurfaceUp" ->
             <<"toolkit", "window", "instance">>
                 \o (IF enableValidationLayers THEN <<"debugMessenger">> ELSE <<>>)
                 \o <<"surface">>
      [] state = "DeviceUp" ->
             <<"toolkit", "window", "instance">>
                 \o (IF enableValidationLayers THEN <<"debugMessenger">> ELSE <<>>)
                 \o <<"surface", "device">>
      [] OTHER ->
             <<"toolkit", "window", "instance">>
                 \o (IF enableValidationLayers THEN <<"debugMessenger">> ELSE <<>>)
                 \o <<"surface", "device", "swapChain">>

WindowAcquired == {"toolkit", "window"} \subseteq Range(AcquiredSeq)

\* C16: a successful run() passes through Uninit, WindowUp, InstanceUp,
\* DebugUp (only when validation is enabled), SurfaceUp, DeviceUp, SwapUp,
\* Running, TearingDown, Done in exactly this order, no stage skipped,
\* repeated or reordered: every step keeps the lifecycle state or moves it
\* to the next one of the order (or fails), in each state exactly the
\* handles of the stages passed have been acquired, in that order, and
\* nothing is destroyed before TearingDown; the surface exists in every
\* state from which a queue-family or swap-chain support query is made.
C16_LifecycleOrder ==
    /\ [][ \/ Lifecycle' = Lifecycle
           \/ Lifecycle' = "Failed"
           \/ /\ Lifecycle \in Range(LifecycleOrder)
              /\ Lifecycle' \in Range(LifecycleOrder)
              /\ Position(LifecycleOrder, Lifecycle') =
                     Position(LifecycleOrder, Lifecycle) + 1 ]_vars
    /\ [](Lifecycle \in {"Uninit", "Failed"} \/ Lifecycle \in Range(LifecycleOrder))
    /\ []((Lifecycle # "Failed" /\ (WindowAcquired \/ Lifecycle = "Uninit")) =>
              /\ AcquiredSeq = UpIn(Lifecycle)
              /\ Lifecycle # "Done" => DestroyedSeq = <<>>
              /\ Lifecycle = "Done" => Range(DestroyedSeq) = Range(AcquiredSeq))
    /\ [](pc \in {"pickLoop", "createLogicalDevice", "createSwapChain"} =>
              handle["surface"] = "valid")

\* a run that went through every state with validation enabled
C16_Witness ==
    /\ Lifecycle = "Done"
    /\ enableValidationLayers
    /\ WindowAcquired
    /\ AcquiredSeq = UpIn("SwapUp")


(* ------------------------------- C17 ----------------------------------- *)
InLoop == pc \in {"glfwWindowShouldClose", "glfwPollEvents"}

\* C17: once initialization has succeeded the main loop leaves Running only
\* after a poll of the window close flag returned true, the flag being
\* polled on every iteration before each event pump; and, the process being
\* scheduled fairly, once the close flag is set (nothing clears it) the loop
\* exits and run() reaches Done.
C17_LoopExitsOnCloseFlag ==
    /\ [][ InitSucceeded =>
             /\ (InLoop /\ ~InLoop') =>
                   /\ pc = "glfwWindowShouldClose"
                   /\ closeFlag
                   /\ pc' = "cleanup"
             /\ pc' = "glfwPollEvents" =>
                   pc = "glfwWindowShouldClose" /\ ~closeFlag
             /\ closeFlag => closeFlag' ]_vars
    /\ (InitSucceeded /\ InLoop /\ closeFlag)
           ~> (pc = "exited" /\ exitCode = "EXIT_SUCCESS")

\* a run that pumped events, saw the flag and returned
C17_Witness ==
    /\ pc = "exited"
    /\ exitCode = "EXIT_SUCCESS"
    /\ InitSucceeded
    /\ closeFlag
    /\ ~enableValidationLayers


(* ------------------------------- C18 ----------------------------------- *)
LayersMissingError == error = "Requested validation layers not available!"
InstanceCreationReached == pc \notin {"initWindow", "createInstance"}

\* C18: when validation is enabled and VK_LAYER_KHRONOS_validation is not
\* among the layers the driver advertises, createInstance fails with the
\* validation-layers-missing error before the driver's instance creation is
\* called, so no instance handle is acquired; when validation is disabled
\* the layer list is never consulted and instance creation proceeds.
C18_MissingLayerFailsBeforeCreation ==
    /\ (enableValidationLayers /\ InstanceCreationReached) =>
          /\ Len(availableLayers) = 1
          /\ LayersMissingError <=>
                "VK_LAYER_KHRONOS_validation" \notin availableLayers[1]
    /\ LayersMissingError =>
          /\ enableValidationLayers
          /\ pc = "exited" /\ exitCode = "EXIT_FAILURE"
          /\ ~instanceCreateInfo.called
          /\ handle["instance"] = "unset"
          /\ "instance" \notin Range(AcquiredSeq)
    /\ ~enableValidationLayers =>
          /\ availableLayers = <<>>
          /\ InstanceCreationReached => instanceCreateInfo.called

C18_Witness ==
    /\ LayersMissingError
    /\ availableLayers = <<{"VK_LAYER_other"}>>
    /\ ~instanceCreateInfo.called


(* ------------------------------- C19 ----------------------------------- *)
\* createLogicalDevice or createSwapChain has called value() on the indices
\* it obtained for the selected device
IndexReadAttempted ==
    error = "bad optional access" \/ deviceCreateInfo.called

\* C19: the code that runs after physical device selection never reads the
\* graphics or presentation family index while it is absent: every read of
\* a raw index happens in a state where the completeness predicate holds
\* for the selected device.
C19_IndexReadOnlyWhenComplete ==
    IndexReadAttempted =>
        /\ isComplete(familyIndices)
        /\ familyIndices = findQueueFamilies(deviceProps)


(* ------------------------------- C20 ----------------------------------- *)
\* C20: createLogicalDevice passes exactly one queue creation record
\* (queueCount 1, priority 1.0) per distinct family index among the graphics
\* and presentation indices: one record when the two roles share an index,
\* two when they differ; and it then fetches one queue handle per role at
\* queue index 0 of that role's family.
C20_OneQueueRecordPerDistinctFamily ==
    deviceCreateInfo.called =>
        LET infos == deviceCreateInfo.queueCreateInfos
            g == familyIndices.graphicsFamily
            p == familyIndices.presentFamily
        IN  /\ {infos[i].queueFamilyIndex : i \in 1..Len(infos)} = {g, p}
            /\ Len(infos) = Cardinality({g, p})
            /\ Len(infos) = IF g = p THEN 1 ELSE 2
            /\ \A i \in 1..Len(infos) :
                  /\ infos[i].queueCount = 1
                  /\ infos[i].pQueuePriorities = <<1>>
            /\ handle["device"] # "unset" =>
                  /\ graphicsQueue = <<g, 0>>
                  /\ presentQueue = <<p, 0>>
            /\ handle["device"] = "unset" =>
                  /\ graphicsQueue = NoQueue
                  /\ presentQueue = NoQueue

\* the two roles on different families, device created and queues fetched
C20_Witness ==
    /\ handle["device"] = "valid"
    /\ Len(deviceCreateInfo.queueCreateInfos) = 2
    /\ graphicsQueue[1] # presentQueue[1]
    /\ graphicsQueue[2] = 0 /\ presentQueue[2] = 0

C20_WitnessShared ==
    /\ handle["device"] = "valid"
    /\ Len(deviceCreateInfo.queueCreateInfos) = 1
    /\ graphicsQueue = presentQueue


(* ------------------------------- C21 ----------------------------------- *)
\* what the toolkit answers to glfwGetRequiredInstanceExtensions in this run
ToolkitRequired ==
    IF handle["toolkit"] \in {"valid", "destroyed"} THEN glfwExtensions ELSE <<>>
ExpectedInstanceExtensions ==
    Range(ToolkitRequired)
        \cup (IF enableValidationLayers
              THEN {VK_EXT_DEBUG_UTILS_EXTENSION_NAME} ELSE {})
RunEnded == pc = "exited"

\* C21 as stated: the extension list passed to the driver's instance
\* creation call is exactly the toolkit-required surface extensions plus the
\* debug-utils extension iff validation is enabled, it contains no device
\* extension name, and the driver's instance creation function is called
\* exactly once per run.
C21_ExtensionsExactCalledOncePerRun ==
    /\ instanceCreateInfo.called =>
          /\ Range(instanceCreateInfo.enabledExtensionNames) =
                 ExpectedInstanceExtensions
          /\ NoDuplicates(instanceCreateInfo.enabledExtensionNames)
          /\ Range(instanceCreateInfo.enabledExtensionNames)
                 \cap Range(deviceExtensions) = {}
    /\ RunEnded => instanceCreateInfo.timesCalled = 1

\* C21 amended: the same about the list; the driver's instance creation
\* function is called at most once per run, exactly once on every run in
\* which createInstance gets past the validation-layer check, and not at all
\* on a run that fails that check.
C21_ExtensionsExactCalledAtMostOnce ==
    /\ instanceCreateInfo.called =>
          /\ Range(instanceCreateInfo.enabledExtensionNames) =
                 ExpectedInstanceExtensions
          /\ NoDuplicates(instanceCreateInfo.enabledExtensionNames)
          /\ Range(instanceCreateInfo.enabledExtensionNames)
                 \cap Range(deviceExtensions) = {}
    /\ instanceCreateInfo.timesCalled <= 1
    /\ instanceCreateInfo.called <=> instanceCreateInfo.timesCalled = 1
    /\ RunEnded =>
          (instanceCreateInfo.timesCalled = 1 <=>
               error # "Requested validation layers not available!")
    /\ deviceCreateInfo.called =>
          "VK_KHR_swapchain" \in Range(deviceCreateInfo.enabledExtensionNames)

\* a finished run with validation on whose one call carried the toolkit's
\* extensions and the debug-utils extension
C21_Witness ==
    /\ RunEnded
    /\ enableValidationLayers
    /\ instanceCreateInfo.timesCalled = 1
    /\ Len(instanceCreateInfo.enabledExtensionNames) = Len(glfwExtensions) + 1
    /\ deviceCreateInfo.called


(* ------------------------------- C22 ----------------------------------- *)
\* positions (from 1) of the scanned list with the GRAPHICS flag, and those
\* whose family reported presentation support, up to position j
GraphicsUpTo(j) ==
    {a \in 1..j : deviceProps.queueFamilies[a].graphics}
SupportUpTo(j) ==
    {b \in 1..j : deviceProps.queueFamilies[b].present = "VK_TRUE"}
Largest(S) == CHOOSE x \in S : \A y \in S : y <= x
\* the index (from 0) of the last position of S, or absent
LastIndexOrAbsent(S) == IF S = {} THEN nullopt ELSE Largest(S) - 1
\* the positions at which both roles have a candidate
BothRolesBy ==
    {j \in 1..Len(deviceProps.queueFamilies) :
        GraphicsUpTo(j) # {} /\ SupportUpTo(j) # {}}

\* C22: findQueueFamilies scans the families in reported order and stops at
\* the first index k at which both roles have been assigned, examining no
\* family after k; the graphics index returned is the largest index up to k
\* whose family has the GRAPHICS flag and the presentation index the largest
\* index up to k whose family supports presentation; if there is no such k
\* the scan covers all families and each role is the last matching index or
\* absent.
C22_ScanStopsAtFirstCompleteIndex ==
    pc = "returned" =>
        LET n == Len(deviceProps.queueFamilies)
            stop == IF BothRolesBy = {} THEN n
                    ELSE CHOOSE j \in BothRolesBy : \A y \in BothRolesBy : j <= y
        IN  /\ familiesExamined = stop
            /\ familyIndices.graphicsFamily =
                   LastIndexOrAbsent(GraphicsUpTo(stop))
            /\ familyIndices.presentFamily =
                   LastIndexOrAbsent(SupportUpTo(stop))

====
